---- MODULE Spec2Model ----
(***************************************************************************)
(* Model of the retrieval-and-answer orchestration of chat_with_pdf.py:    *)
(* the retrieval tool (generate_query_embedding + vector_search_tool),     *)
(* the direct strategy (select_tool + generate_answer), the ReAct strategy *)
(* (generate_answer_react), the session memory (store_chat_message,        *)
(* retrieve_session_history, clear_history) and the chat loop of main.     *)
(*                                                                         *)
(* Remote collaborators (embedding service, vector store, LLM, history     *)
(* store, image files) are inputs: every handler draws their outcome with  *)
(* \E from the small sets below.                                           *)
(***************************************************************************)
EXTENDS Integers, Sequences, FiniteSets, TLC

VARIABLES
    USE_MEMORY,          \* global flag, set once in main
    USE_REACT,           \* global flag, set once in main
    SESSION_ID,          \* global, set once in main
    SERVERLESS_URL,      \* TRUE iff the environment variable is set
    collection,          \* the vector store: the set of ingested documents (by key)
    history_collection,  \* the history store: sequence of message records, in insertion order
    pc,                  \* position of main: "start", "prompt", "react" (at the while
                         \* test of a ReAct turn), "react_pass" (at the end of a pass),
                         \* "handled", "exited"
    default_images,      \* the list object that is generate_answer's default for `images`
    last,                \* what the last completed handler did and returned
    react,               \* locals of generate_answer_react while a ReAct turn runs
    search,              \* the last call of vector_search_tool: what it met, what it returned
    runs,                \* concurrent runs sharing the history store (SpecShared only)
    startup              \* what initialize_connections met and returned

vars == <<USE_MEMORY, USE_REACT, SESSION_ID, SERVERLESS_URL, collection,
          history_collection, pc, default_images, last, react, search, runs, startup>>

---------------------------------------------------------------------------
(* Bounds of the model *)

MaxDecisionLen == 3      \* longest LLM decision text, in tokens
MaxImages == 2           \* keys held by generate_answer's default list
MaxStored == 7           \* messages held by the history store
MaxDocs == 3             \* documents in the vector store (SpecSearch)
MaxScore == 2            \* similarity scores are 0..MaxScore
MaxShared == 3           \* messages held by the history store (SpecShared)
MaxClock == 3            \* latest timestamp (SpecShared)
MaxCoord == 5            \* vector components are -MaxCoord..MaxCoord (SpecNormalize)
MaxDim == 2              \* longest vector (SpecNormalize)

(* Program constants *)

max_iterations == 3      \* generate_answer_react
VS_LIMIT == 2            \* "limit" of the $vectorSearch stage
NUM_CANDIDATES == 150    \* "numCandidates" of the $vectorSearch stage

---------------------------------------------------------------------------
(* Small helpers on sequences *)

SeqsUpTo(S, n) == UNION {[1..k -> S] : k \in 0..n}

Range(s) == {s[i] : i \in DOMAIN s}

IsInjective(s) == \A i, j \in DOMAIN s : s[i] = s[j] => i = j

Min(a, b) == IF a <= b THEN a ELSE b

---------------------------------------------------------------------------
(* Retrieval tool *)

Keys == {"k1", "k2", "k3", "k4"}

DocKeys(n) == {k \in Keys : \E i \in 1..n : k = <<"k1", "k2", "k3", "k4">>[i]}

\* Embeddings the service may return (small integer vectors, the empty list
\* and the zero vector included).
Embeddings == {<< >>, <<0, 0>>, <<3, 4>>, <<1, 0>>}

\* np.linalg.norm(v), squared: the sum of the squares of the components.
RECURSIVE NormSq(_)
NormSq(v) == IF v = << >> THEN 0 ELSE Head(v) * Head(v) + NormSq(Tail(v))

\* np.array(embedding) / norm, kept exact: the vector num / sqrt(den2).
Normalize(v) ==
    IF NormSq(v) > 0 THEN [num |-> v, den2 |-> NormSq(v)]
                     ELSE [num |-> v, den2 |-> 1]

\* What the embedding service does with one request.
EmbeddingReplies ==
    {[kind |-> "unreachable", code |-> 0, embedding |-> << >>],
     [kind |-> "status", code |-> 500, embedding |-> << >>],
     [kind |-> "status", code |-> 404, embedding |-> << >>],
     [kind |-> "no_field", code |-> 200, embedding |-> << >>]}
    \cup {[kind |-> "ok", code |-> 200, embedding |-> e] : e \in Embeddings}

\* A Python call either raises or returns a value.
Raise == [raised |-> TRUE, value |-> << >>]
Return(v) == [raised |-> FALSE, value |-> v]

\* Mutant: the division is made whatever the norm.
normalize_vector_Mutant(v) == [num |-> v, den2 |-> NormSq(v)]

\* normalize_vector of test_agent_debug.py: v / norm if norm > 0 else v.
normalize_vector(v) ==
    IF NormSq(v) > 0 THEN [num |-> v, den2 |-> NormSq(v)]
                     ELSE [num |-> v, den2 |-> 1]

None == [some |-> FALSE, num |-> << >>, den2 |-> 1]
Some(e) == [some |-> TRUE, num |-> e.num, den2 |-> e.den2]

\* The try block of generate_query_embedding.
EmbeddingBody(url, reply) ==
    IF ~url THEN Return(None)                               \* no embedding service
    ELSE IF reply.kind = "unreachable" THEN Raise           \* requests.post raises
    ELSE IF reply.code # 200 THEN Return(None)              \* status_code != 200
    ELSE IF reply.kind = "no_field" THEN Raise              \* response.json()["embedding"]
    ELSE Return(Some(Normalize(reply.embedding)))

\* generate_query_embedding: the normalized embedding, or None (except: return None).
generate_query_embedding(url, reply) ==
    LET body == EmbeddingBody(url, reply)
    IN  IF body.raised THEN None ELSE body.value

\* Python truthiness of generate_query_embedding's result.
Truthy(emb) == emb.some /\ emb.num # << >>

\* The results the $vectorSearch stage may return for the documents `docs`
\* scored by `score`: the `limit` best of the candidate pool, best first.
VectorSearchResults(docs, score, limit) ==
    LET pool == IF Cardinality(docs) <= NUM_CANDIDATES THEN {docs}
                ELSE {c \in SUBSET docs : Cardinality(c) = NUM_CANDIDATES}
    IN  {s \in SeqsUpTo(docs, limit) :
            \E c \in pool :
                /\ Range(s) \subseteq c
                /\ IsInjective(s)
                /\ Len(s) = Min(limit, Cardinality(c))
                /\ \A i \in 1..(Len(s) - 1) : score[s[i]] >= score[s[i + 1]]
                /\ \A d \in c \ Range(s) : \A i \in DOMAIN s : score[s[i]] >= score[d]}

\* Mutant: the pipeline asks for one result more.
PipelineLimit_Mutant == VS_LIMIT + 1

\* "limit" of the pipeline's $vectorSearch stage.
PipelineLimit == VS_LIMIT

\* What collection.aggregate(pipeline) may do on the store `docs` scored by `score`.
Aggregations(docs, score) ==
    {Raise} \cup {Return(s) : s \in VectorSearchResults(docs, score, PipelineLimit)}

\* keys = [result["key"] for result in results]
ResultKeys(results) == results

\* The try block of vector_search_tool.
SearchBody(url, reply, agg) ==
    LET query_embedding == generate_query_embedding(url, reply)
    IN  IF ~Truthy(query_embedding) THEN Return(<< >>)
        ELSE IF agg.raised THEN Raise
        ELSE Return(ResultKeys(agg.value))

\* Mutant: vector_search_tool without its try/except.
vector_search_tool_Mutant(url, reply, agg) == SearchBody(url, reply, agg)

\* vector_search_tool: the keys it returns (except: return []).
vector_search_tool(url, reply, agg) ==
    LET body == SearchBody(url, reply, agg)
    IN  IF body.raised THEN Return(<< >>) ELSE body

\* Mutant: the aggregation is run whatever the embedding request gave.
SearchCalls_Mutant(url, reply, agg) ==
    (IF url THEN <<"embedding">> ELSE << >>) \o <<"vector_search">>

\* Whether a call of vector_search_tool reaches the embedding request and the
\* aggregation.
SearchCalls(url, reply, agg) ==
    (IF url THEN <<"embedding">> ELSE << >>)
    \o (IF Truthy(generate_query_embedding(url, reply)) THEN <<"vector_search">> ELSE << >>)

NoSearch ==
    [called |-> FALSE, url |-> FALSE, reply |-> [kind |-> "none"], score |-> << >>,
     agg |-> Raise, raised |-> FALSE, keys |-> << >>]

\* One call of vector_search_tool, as recorded in `search`.
SearchRecord(url, reply, score, agg) ==
    LET r == vector_search_tool(url, reply, agg)
    IN  [called |-> TRUE, url |-> url, reply |-> reply, score |-> score, agg |-> agg,
         raised |-> r.raised, keys |-> r.value]

---------------------------------------------------------------------------
(* Text.  A text is a sequence of tokens; the two markers of the ReAct
   protocol and a whitespace character are tokens of their own. *)

ANSWER == "ANSWER:"
TOOL == "TOOL:"
WS == " "

Tokens == {ANSWER, TOOL, WS, "x"}

Texts == SeqsUpTo(Tokens, MaxDecisionLen)

\* marker in text
Contains(text, marker) == \E i \in DOMAIN text : text[i] = marker

FirstIndex(text, marker) ==
    CHOOSE i \in DOMAIN text :
        text[i] = marker /\ \A j \in 1..(i - 1) : text[j] # marker

\* text.split(marker, 1)[1]
AfterFirst(text, marker) == SubSeq(text, FirstIndex(text, marker) + 1, Len(text))

RECURSIVE LStrip(_)
LStrip(text) ==
    IF text # << >> /\ Head(text) = WS THEN LStrip(Tail(text)) ELSE text

RECURSIVE RStrip(_)
RStrip(text) ==
    IF text # << >> /\ text[Len(text)] = WS
    THEN RStrip(SubSeq(text, 1, Len(text) - 1)) ELSE text

\* text.strip()
Strip(text) == RStrip(LStrip(text))

\* The fixed messages the strategies return.
APOLOGY == <<"I apologize, but I encountered an error while processing your question.">>
REACT_APOLOGY ==
    <<"I encountered an error while processing your question with the ReAct approach.">>
REACT_EXHAUSTED ==
    <<"I couldn't find a definitive answer after exploring the available information. Please try rephrasing your question.">>

\* The markers appended to current_information.
NO_INFO == "No relevant information found for this query."
UNCLEAR == "Unable to determine next action."

\* What the user asks.
Queries == {<<"x", WS, "x">>}

\* str.lower() on a word.
Lower(word) ==
    CASE word = "HELP" -> "help"
      [] word = "Clear" -> "clear"
      [] word = "STATUS" -> "status"
      [] word = "EXIT" -> "exit"
      [] word = "Q" -> "q"
      [] OTHER -> word

LowerText(text) == [i \in DOMAIN text |-> Lower(text[i])]

\* Mutant: the commands are matched as typed.
Command_Mutant(user_input) ==
    IF user_input = << >> THEN "empty"
    ELSE IF user_input \in {<<"quit">>, <<"exit">>, <<"q">>} THEN "quit"
    ELSE IF user_input = <<"help">> THEN "help"
    ELSE IF user_input = <<"clear">> THEN "clear"
    ELSE IF user_input = <<"status">> THEN "status"
    ELSE "query"

\* Lines 567-583 on user_input (already stripped): what the loop does with it.
Command(user_input) ==
    IF user_input = << >> THEN "empty"
    ELSE IF LowerText(user_input) \in {<<"quit">>, <<"exit">>, <<"q">>} THEN "quit"
    ELSE IF LowerText(user_input) = <<"help">> THEN "help"
    ELSE IF LowerText(user_input) = <<"clear">> THEN "clear"
    ELSE IF LowerText(user_input) = <<"status">> THEN "status"
    ELSE "query"

\* What the user may type at the prompt: the commands in several spellings,
\* nothing, and the queries with and without surrounding whitespace.
Lines ==
    {<< >>, <<WS>>, <<"help">>, <<WS, "HELP", WS>>, <<"clear">>, <<"Clear", WS>>,
     <<"status">>, <<WS, "STATUS">>, <<"quit">>, <<"EXIT">>, <<"q">>, <<"Q", WS>>}
    \cup Queries \cup {<<WS>> \o q \o <<WS>> : q \in Queries}

\* input(...).strip() (line 565) gives a line that the loop takes as `kind`.
Typed(kind) == {line \in Lines : Command(Strip(line)) = kind}

\* What a generate_content call may do: raise, or return a response whose
\* .text is a text or None.
NoText == [raised |-> FALSE, value |-> << >>, none |-> TRUE]
TextReply(t) == [raised |-> FALSE, value |-> t, none |-> FALSE]
LlmRaise == [raised |-> TRUE, value |-> << >>, none |-> FALSE]

LlmReplies(texts) == {LlmRaise, NoText} \cup {TextReply(t) : t \in texts}

\* A path is a text of one token, the key of the document.
PathOf(key) == <<key>>
KeyOf(path) == path[1]

\* An item of a contents list: a text, or the image opened from the file of a key.
Text(t) == [type |-> "text", content |-> t]
Image(key) == [type |-> "image", content |-> PathOf(key)]

\* The states of an image file: Path(key).exists() and Image.open(key).
FileStates == {"ok", "missing", "corrupt"}

\* Mutant: one image that does not open leaves no image at all.
Loadable_Mutant(keys, fs) ==
    IF \E i \in DOMAIN keys : fs[keys[i]] # "ok" THEN << >> ELSE keys

\* The retrieved keys whose image opens, in order.
RECURSIVE Loadable(_, _)
Loadable(keys, fs) ==
    IF keys = << >> THEN << >>
    ELSE (IF fs[Head(keys)] = "ok" THEN <<Head(keys)>> ELSE << >>)
         \o Loadable(Tail(keys), fs)

\* [Image.open(k) for k in keys]
Images(keys) == [i \in DOMAIN keys |-> Image(keys[i])]

\* The distinct outcomes of one call of vector_search_tool on the store `docs`:
\* the remote calls it issued, what the embedding service answered (when it was
\* asked) and the keys it returned.
SearchOutcomesOn(url, docs) ==
    {[calls |-> SearchCalls(url, reply, agg),
      embedding_reply |-> IF url THEN reply.kind ELSE "none",
      raised |-> vector_search_tool(url, reply, agg).raised,
      keys |-> vector_search_tool(url, reply, agg).value] :
        reply \in EmbeddingReplies,
        agg \in UNION {Aggregations(docs, sc) : sc \in [docs -> 0..MaxScore]}}

\* The same, tabulated for the stores of the chat loop.
SearchOutcomeTable ==
    [url \in BOOLEAN |-> [docs \in {{"k1"}, {"k1", "k2"}} |-> SearchOutcomesOn(url, docs)]]

SearchOutcomes(url, docs) == SearchOutcomeTable[url][docs]

---------------------------------------------------------------------------
(* Session memory: store_chat_message, retrieve_session_history, clear_history *)

Sessions == {"s1", "s2"}

Message(session_id, role, type, content, timestamp) ==
    [session_id |-> session_id, role |-> role, type |-> type, content |-> content,
     timestamp |-> timestamp]

\* datetime.now(): later than the timestamp of every stored message.
RECURSIVE MaxTimestamp(_)
MaxTimestamp(store) ==
    IF store = << >> THEN 0
    ELSE LET m == MaxTimestamp(Tail(store))
         IN  IF Head(store).timestamp > m THEN Head(store).timestamp ELSE m

Now(store) == MaxTimestamp(store) + 1

\* Mutant: the message replaces the newest stored message (an update, not an
\* insert).
store_chat_message_Mutant(store, use_memory, session_id, role, type, content, ok) ==
    IF ~use_memory THEN store
    ELSE IF ~ok THEN store
    ELSE IF store = << >>
         THEN <<Message(session_id, role, type, content, 1)>>
    ELSE [store EXCEPT ![Len(store)] =
             Message(session_id, role, type, content, store[Len(store)].timestamp + 1)]

\* store_chat_message: the store after the call; `ok` is FALSE when insert_one raises
\* (the exception is caught and a warning shown).
store_chat_message(store, use_memory, session_id, role, type, content, ok) ==
    IF ~use_memory THEN store
    ELSE IF ~ok THEN store
    ELSE Append(store, Message(session_id, role, type, content, Now(store)))

\* Mutant: find({}) without the session filter.
Find_Mutant(store, session_id) == store

\* find({"session_id": session_id})
Find(store, session_id) == SelectSeq(store, LAMBDA m : m.session_id = session_id)

\* .sort("timestamp", 1)
RECURSIVE InsertByTimestamp(_, _)
InsertByTimestamp(m, sorted) ==
    IF sorted = << >> THEN <<m>>
    ELSE IF m.timestamp < Head(sorted).timestamp THEN <<m>> \o sorted
    ELSE <<Head(sorted)>> \o InsertByTimestamp(m, Tail(sorted))

RECURSIVE SortByTimestamp(_)
SortByTimestamp(msgs) ==
    IF msgs = << >> THEN << >>
    ELSE InsertByTimestamp(msgs[Len(msgs)], SortByTimestamp(SubSeq(msgs, 1, Len(msgs) - 1)))

\* Mutant: the cursor without the sort.
Cursor_Mutant(store, session_id) == Find(store, session_id)

Cursor(store, session_id) == SortByTimestamp(Find(store, session_id))

\* The loop over the cursor, lines 309-316.
RECURSIVE HistoryItems(_, _)
HistoryItems(msgs, fs) ==
    IF msgs = << >> THEN << >>
    ELSE LET msg == Head(msgs)
         IN  (IF msg.type = "text" THEN <<Text(msg.content)>>
              ELSE IF msg.type = "image" /\ fs[KeyOf(msg.content)] = "ok"
                   THEN <<Image(KeyOf(msg.content))>>
              ELSE << >>)
             \o HistoryItems(Tail(msgs), fs)

\* retrieve_session_history; `find_ok` is FALSE when the query raises.
retrieve_session_history(store, use_memory, session_id, find_ok, fs) ==
    IF ~use_memory THEN << >>
    ELSE IF ~find_ok THEN << >>
    ELSE HistoryItems(Cursor(store, session_id), fs)

\* Mutant: delete_one instead of delete_many.
DeleteMany_Mutant(store, session_id) ==
    IF Find(store, session_id) = << >> THEN store
    ELSE LET first == CHOOSE i \in DOMAIN store :
                          /\ store[i].session_id = session_id
                          /\ \A j \in 1..(i - 1) : store[j].session_id # session_id
         IN  SubSeq(store, 1, first - 1) \o SubSeq(store, first + 1, Len(store))

\* delete_many({"session_id": session_id}): what stays in the store.
DeleteMany(store, session_id) == SelectSeq(store, LAMBDA m : m.session_id # session_id)

\* Mutant: clear_history without the check of USE_MEMORY.
clear_history_Mutant(store, use_memory, session_id, delete_ok) ==
    IF ~delete_ok THEN [store |-> store, report |-> "failed", deleted_count |-> 0]
    ELSE [store |-> DeleteMany(store, session_id), report |-> "cleared",
          deleted_count |-> Len(store) - Len(DeleteMany(store, session_id))]

\* clear_history: the store after the call and what was reported;
\* `delete_ok` is FALSE when delete_many raises.
clear_history(store, use_memory, session_id, delete_ok) ==
    IF ~use_memory THEN [store |-> store, report |-> "not_enabled", deleted_count |-> 0]
    ELSE IF ~delete_ok THEN [store |-> store, report |-> "failed", deleted_count |-> 0]
    ELSE [store |-> DeleteMany(store, session_id), report |-> "cleared",
          deleted_count |-> Len(store) - Len(DeleteMany(store, session_id))]

---------------------------------------------------------------------------
(* Direct strategy: select_tool and generate_answer *)

RETRIEVAL_TOOL == "get_information_for_question_answering"

\* The function_call of the first part of the first candidate, or None.
NoCall == [name |-> "None", args_ok |-> FALSE]
FunctionCall(name, args_ok) == [name |-> name, args_ok |-> args_ok]

\* What the tool-selection request may do: raise, answer without candidates
\* or with a text part (function_call None), or name a function; `args_ok`
\* says whether the arguments are exactly {user_query: <string>}.
SelectionReplies ==
    {Raise, Return(NoCall), Return(FunctionCall(RETRIEVAL_TOOL, TRUE)),
     Return(FunctionCall(RETRIEVAL_TOOL, FALSE)), Return(FunctionCall("other_tool", TRUE))}

\* Mutant: select_tool without its try/except.
select_tool_Mutant(reply) == reply

\* select_tool (except: return None).
select_tool(reply) == IF reply.raised THEN Return(NoCall) ELSE reply

\* Mutant: any selected function is taken for the retrieval tool.
UseTool_Mutant(tool_call) == tool_call # NoCall

\* The condition of lines 367-368.
UseTool(tool_call) == tool_call # NoCall /\ tool_call.name = RETRIEVAL_TOOL

\* Texts the generation call may return.
Answers == {<<"x">>}

PY_NONE == <<"None">>

\* What the generation request of generate_answer may do.
GenerationReplies == {LlmRaise} \cup {TextReply(t) : t \in Answers}

\* The inserts of lines 407-411 in order, as (role, type, content).
Inserts(user_query, images, answer) ==
    <<<<"user", "text", user_query>>>>
    \o [i \in DOMAIN images |-> <<"user", "image", PathOf(images[i])>>]
    \o <<<<"agent", "text", answer>>>>

RECURSIVE StoreAll(_, _, _, _, _)
StoreAll(store, use_memory, session_id, inserts, oks) ==
    IF inserts = << >> THEN store
    ELSE StoreAll(store_chat_message(store, use_memory, session_id, Head(inserts)[1],
                                     Head(inserts)[2], Head(inserts)[3], Head(oks)),
                  use_memory, session_id, Tail(inserts), Tail(oks))

\* Which images generate_answer starts from when main calls it without one:
\* the default list object, which images.extend mutates.
DefaultImages(default_list) == default_list

\* generate_answer(user_query), as called by main: everything it does, given
\* the collaborators' behaviour in this turn.
\*   find_ok : the history query does not raise      sel : the tool-selection reply
\*   out     : the outcome of vector_search_tool     fs  : the state of the image files
\*   gen     : the generation reply
GenerateAnswerTurn(user_query, find_ok, sel, out, fs, gen) ==
    LET history == IF USE_MEMORY
                   THEN retrieve_session_history(history_collection, USE_MEMORY,
                                                 SESSION_ID, find_ok, fs)
                   ELSE << >>
        messages_for_tool == history \o <<Text(user_query)>>
        selected == select_tool(sel)
        tool_call == selected.value
        use_tool == ~selected.raised /\ UseTool(tool_call)
        \* vector_search_tool(**tool_call.args) raises TypeError on other arguments
        searched == use_tool /\ tool_call.args_ok
        tool_images == IF searched /\ ~out.raised THEN out.keys ELSE << >>
        images == DefaultImages(default_images) \o tool_images
        valid_images == Images(Loadable(images, fs))
        contents == [history |-> history, query |-> user_query, images |-> valid_images]
        failed_before == \/ selected.raised
                         \/ use_tool /\ ~tool_call.args_ok
                         \/ searched /\ out.raised
        generated == ~failed_before
        raised == failed_before \/ gen.raised
        answer == IF gen.none THEN PY_NONE ELSE gen.value
        inserts == IF ~raised /\ USE_MEMORY THEN Inserts(user_query, images, answer)
                   ELSE << >>
    IN  [raised |-> raised,
         result |-> IF raised THEN APOLOGY ELSE answer,
         calls |-> (IF USE_MEMORY THEN <<"history_find">> ELSE << >>)
                   \o <<"select_tool">>
                   \o (IF use_tool THEN <<"vector_search_tool">> ELSE << >>)
                   \o (IF searched THEN out.calls ELSE << >>)
                   \o (IF generated THEN <<"generate">> ELSE << >>)
                   \o [i \in DOMAIN inserts |-> "insert"],
         selection |-> sel,
         tool_call |-> tool_call,
         skipped |-> {k \in Range(images) : fs[k] # "ok"},
         searched |-> searched,
         search_failed |-> searched /\ out.keys = << >>,
         embedding_reply |-> IF searched THEN out.embedding_reply ELSE "none",
         retrieved |-> tool_images,
         tool_contents |-> messages_for_tool,
         contents |-> contents,
         gen_raised |-> generated /\ gen.raised,
         inserts |-> inserts,
         images |-> images]

---------------------------------------------------------------------------
(* ReAct strategy: generate_answer_react, one action per loop pass *)

NoReact ==
    [active |-> FALSE, user_query |-> << >>, current_iteration |-> 0,
     current_information |-> << >>, llm_calls |-> 0, searches |-> 0,
     tool_query |-> << >>, branch |-> "none", acted |-> FALSE, answer_seen |-> FALSE,
     tool_images |-> << >>, skipped |-> {}, info_before |-> << >>,
     decision |-> << >>, repeats |-> 0]

\* Mutant: the loop admits one pass more.
LoopGuard_Mutant(current_iteration) == current_iteration <= max_iterations

\* The while condition.
LoopGuard(current_iteration) == current_iteration < max_iterations

\* No reasoning call was made (a turn that ends after the loop).
NoReply == [raised |-> FALSE, value |-> << >>, none |-> FALSE, absent |-> TRUE]

\* Mutant: the TOOL: marker is looked for first.
Branch_Mutant(decision) ==
    IF Contains(decision, TOOL) THEN "tool"
    ELSE IF Contains(decision, ANSWER) THEN "answer"
    ELSE "unclear"

\* The if / elif / else on the decision, lines 460-486.
Branch(decision) ==
    IF Contains(decision, ANSWER) THEN "answer"
    ELSE IF Contains(decision, TOOL) THEN "tool"
    ELSE "unclear"

\* What a returned generate_answer_react leaves in `last`: its result, its
\* locals, what the last reasoning call did (`reply`) and how the turn ended.
Returned(handler, result, r, reply, how) ==
    [handler |-> handler, query |-> r.user_query, result |-> result,
     llm_calls |-> r.llm_calls, searches |-> r.searches, reply |-> reply,
     iterations |-> r.current_iteration, tool_query |-> r.tool_query,
     information |-> r.current_information, how |-> how, acted |-> r.acted,
     repeats |-> r.repeats]

NoLast == [handler |-> "none"]

\* contents of a reasoning call (line 452): the system prompt, which embeds the
\* user query, followed by the accumulated information.
ReactContents(r) == <<Text(r.user_query)>> \o r.current_information

\* The texts a reasoning call may return: every short text over the tokens,
\* and an answer that repeats the function's own closing message.
Decisions == Texts \cup {<<ANSWER, WS, REACT_EXHAUSTED[1]>>}

\* Lines 421-443, called from main with the default (empty) images.
ReactStart ==
    /\ pc = "prompt" /\ USE_REACT
    /\ \E line \in Typed("query") :
        react' = [NoReact EXCEPT !.active = TRUE, !.user_query = Strip(line)]
    /\ pc' = "react"
    /\ UNCHANGED <<USE_MEMORY, USE_REACT, SESSION_ID, SERVERLESS_URL, collection,
                   history_collection, default_images, last, search, runs, startup>>

\* `return result` of generate_answer_react, back in main's loop.
ReactReturn(result, r, reply, how) ==
    /\ last' = Returned("generate_answer_react", result, r, reply, how)
    /\ react' = NoReact
    /\ pc' = "handled"

\* Mutant: the except clause returns the message of the exhausted loop.
ReactExcept_Mutant(r, reply) == ReactReturn(REACT_EXHAUSTED, r, reply, "except")

\* The `except Exception` of generate_answer_react.
ReactExcept(r, reply) == ReactReturn(REACT_APOLOGY, r, reply, "except")

\* Mutant: the marker is appended when no retrieved image loads.
ToolInformation_Mutant(current_information, tool_images, fs) ==
    IF Loadable(tool_images, fs) # << >>
    THEN current_information \o Images(Loadable(tool_images, fs))
    ELSE Append(current_information, Text(<<NO_INFO>>))

\* Lines 472-483: what the result of the search adds to current_information.
ToolInformation(current_information, tool_images, fs) ==
    IF tool_images # << >>
    THEN current_information \o Images(Loadable(tool_images, fs))
    ELSE Append(current_information, Text(<<NO_INFO>>))

\* Mutant: the else branch appends the marker of the empty search.
UnclearInformation_Mutant(current_information) ==
    Append(current_information, Text(<<NO_INFO>>))

\* Line 486: what the else branch adds to current_information.
UnclearInformation(current_information) ==
    Append(current_information, Text(<<UNCLEAR>>))

\* A search phrase whose repetitions within a turn are counted in
\* `react.repeats`.
PHRASE == <<"x">>

\* Mutant: a phrase already searched in this turn is not searched again.
ToolInvoked_Mutant(repeats, tool_query) == ~(tool_query = PHRASE /\ repeats > 0)

\* Line 470: vector_search_tool is called on every TOOL: decision; the loop
\* keeps no record of the phrases it has searched.
ToolInvoked(repeats, tool_query) == TRUE

\* The TOOL: branch, lines 466-483.
ReactTool(r, reply) ==
    LET decision == reply.value
        tool_query == Strip(AfterFirst(decision, TOOL))
        invoked == ToolInvoked(r.repeats, tool_query)
    IN  \E out \in SearchOutcomes(SERVERLESS_URL, collection),
           fs \in [collection -> FileStates] :
            LET tool_images == IF invoked THEN out.keys ELSE << >>
                info == ToolInformation(r.current_information, tool_images, fs)
                r2 == [r EXCEPT !.tool_query = tool_query,
                                !.searches = IF invoked THEN @ + 1 ELSE @,
                                !.repeats = IF invoked /\ tool_query = PHRASE
                                            THEN @ + 1 ELSE @,
                                !.decision = decision,
                                !.acted = TRUE, !.branch = "tool",
                                !.tool_images = tool_images,
                                !.skipped = {k \in Range(tool_images) : fs[k] # "ok"},
                                !.answer_seen = Contains(decision, ANSWER)]
            IN  IF out.raised
                THEN ReactExcept(r2, reply)
                ELSE /\ react' = [r2 EXCEPT !.current_information = info]
                     /\ pc' = "react_pass"
                     /\ UNCHANGED last

\* One pass of the while loop, lines 445-486.
ReactIterate ==
    /\ pc = "react" /\ LoopGuard(react.current_iteration)
    /\ LET r == [react EXCEPT !.current_iteration = @ + 1, !.llm_calls = @ + 1,
                              !.info_before = react.current_information]
       IN  \E reply \in LlmReplies(Decisions) :
            \/ /\ reply.raised                                \* generate_content raises
               /\ ReactExcept(r, reply)
            \/ /\ ~reply.raised /\ reply.none                 \* decision[:100] on None
               /\ ReactExcept(r, reply)
            \/ /\ ~reply.raised /\ ~reply.none
               /\ Branch(reply.value) = "answer"
               /\ ReactReturn(Strip(AfterFirst(reply.value, ANSWER)), r, reply, "answer")
            \/ /\ ~reply.raised /\ ~reply.none
               /\ Branch(reply.value) = "tool"
               /\ ReactTool(r, reply)
            \/ /\ ~reply.raised /\ ~reply.none
               /\ Branch(reply.value) = "unclear"
               /\ react' = [r EXCEPT !.current_information = UnclearInformation(@),
                                     !.branch = "unclear", !.decision = reply.value,
                                     !.answer_seen = Contains(reply.value, ANSWER)]
               /\ pc' = "react_pass"
               /\ UNCHANGED last
    /\ UNCHANGED <<USE_MEMORY, USE_REACT, SESSION_ID, SERVERLESS_URL, collection,
                   history_collection, default_images, search, runs, startup>>

\* Mutant: the next pass starts from an empty current_information.
ReactLoop_Mutant ==
    /\ pc = "react_pass"
    /\ pc' = "react"
    /\ react' = [react EXCEPT !.tool_query = << >>, !.branch = "none", !.acted = FALSE,
                              !.answer_seen = FALSE, !.tool_images = << >>,
                              !.skipped = {}, !.info_before = << >>, !.decision = << >>,
                              !.current_information = << >>]
    /\ UNCHANGED <<USE_MEMORY, USE_REACT, SESSION_ID, SERVERLESS_URL, collection,
                   history_collection, default_images, last, search, runs, startup>>

\* The end of a pass that did not return: back to the while test; the locals
\* of the pass (decision, tool_query, tool_images, new_images) are left behind.
ReactLoop ==
    /\ pc = "react_pass"
    /\ pc' = "react"
    /\ react' = [react EXCEPT !.tool_query = << >>, !.branch = "none", !.acted = FALSE,
                              !.answer_seen = FALSE, !.tool_images = << >>,
                              !.skipped = {}, !.info_before = << >>, !.decision = << >>]
    /\ UNCHANGED <<USE_MEMORY, USE_REACT, SESSION_ID, SERVERLESS_URL, collection,
                   history_collection, default_images, last, search, runs, startup>>

\* Mutant: the loop gives up after two passes.
ReactExhausted_Mutant ==
    /\ pc = "react" /\ react.current_iteration >= 2
    /\ ReactReturn(REACT_EXHAUSTED, react, NoReply, "exhausted")
    /\ UNCHANGED <<USE_MEMORY, USE_REACT, SESSION_ID, SERVERLESS_URL, collection,
                   history_collection, default_images, search, runs, startup>>

\* Lines 488-489: the loop ended without an answer.
ReactExhausted ==
    /\ pc = "react" /\ ~LoopGuard(react.current_iteration)
    /\ ReactReturn(REACT_EXHAUSTED, react, NoReply, "exhausted")
    /\ UNCHANGED <<USE_MEMORY, USE_REACT, SESSION_ID, SERVERLESS_URL, collection,
                   history_collection, default_images, search, runs, startup>>

---------------------------------------------------------------------------
(* The chat loop of main *)

\* Which insert_one calls of a turn succeed: the store is lost at some point
\* of the turn (the first k inserts succeed), or not at all (k = n).
InsertOutcomes(n) == {[i \in 1..n |-> i <= k] : k \in 0..n}

\* The model's bound on a turn of the direct strategy: room for the keys a
\* retrieval may add and for the messages the turn may store.
RoomForTurn ==
    /\ Len(default_images) + Min(VS_LIMIT, Cardinality(collection)) <= MaxImages
    /\ USE_MEMORY =>
          Len(history_collection) + 2 + Len(default_images)
              + Min(VS_LIMIT, Cardinality(collection)) <= MaxStored

\* main's loop comes back to the prompt: the handler's locals are gone.
Loop ==
    /\ pc = "handled"
    /\ pc' = "prompt"
    /\ last' = NoLast
    /\ UNCHANGED <<USE_MEMORY, USE_REACT, SESSION_ID, SERVERLESS_URL, collection,
                   history_collection, default_images, react, search, runs, startup>>

NoOutcome == [calls |-> << >>, embedding_reply |-> "none", raised |-> FALSE, keys |-> << >>]

\* Mutant: an insert that raises reaches the except of generate_answer.
TurnResult_Mutant(result, oks) ==
    IF \E i \in DOMAIN oks : ~oks[i] THEN APOLOGY ELSE result

\* Line 413: the answer is returned whatever the inserts of lines 407-411 did,
\* store_chat_message keeping their exceptions to itself (lines 297-298).
TurnResult(result, oks) == result

\* A query in direct mode: response = generate_answer(user_input).
GenerateAnswer ==
    /\ pc = "prompt" /\ ~USE_REACT /\ RoomForTurn
    /\ \E q \in {Strip(line) : line \in Typed("query")},
          sel \in SelectionReplies, fs \in [collection -> FileStates],
          find_ok \in (IF USE_MEMORY THEN BOOLEAN ELSE {TRUE}) :
        \E out \in (IF sel = Return(FunctionCall(RETRIEVAL_TOOL, TRUE))
                    THEN SearchOutcomes(SERVERLESS_URL, collection) ELSE {NoOutcome}) :
        \E gen \in GenerationReplies :
            LET t == GenerateAnswerTurn(q, find_ok, sel, out, fs, gen)
            IN  \E oks \in InsertOutcomes(Len(t.inserts)) :
                    /\ history_collection' =
                          StoreAll(history_collection, USE_MEMORY, SESSION_ID, t.inserts, oks)
                    /\ default_images' = t.images
                    /\ last' = [handler |-> "generate_answer", query |-> q,
                                result |-> TurnResult(t.result, oks),
                                calls |-> t.calls,
                                sel_raised |-> sel.raised, searched |-> t.searched,
                                tool_call |-> t.tool_call, skipped |-> t.skipped,
                                search_failed |-> t.search_failed,
                                embedding_reply |-> t.embedding_reply,
                                retrieved |-> t.retrieved, contents |-> t.contents,
                                gen_raised |-> t.gen_raised, raised |-> t.raised,
                                find_ok |-> find_ok, images |-> t.images,
                                images_before |-> default_images,
                                insert_oks |-> oks,
                                tool_contents |-> t.tool_contents,
                                store_before |-> history_collection]
    /\ pc' = "handled"
    /\ UNCHANGED <<USE_MEMORY, USE_REACT, SESSION_ID, SERVERLESS_URL, collection,
                   react, search, runs, startup>>

\* The command `clear`: clear_history().
Clear ==
    /\ pc = "prompt"
    /\ \E line \in Typed("clear"), delete_ok \in (IF USE_MEMORY THEN BOOLEAN ELSE {TRUE}) :
        LET c == clear_history(history_collection, USE_MEMORY, SESSION_ID, delete_ok)
        IN  /\ history_collection' = c.store
            /\ last' = [handler |-> "clear_history", input |-> line, report |-> c.report,
                        deleted_count |-> c.deleted_count,
                        held |-> Len(Find(history_collection, SESSION_ID)),
                        delete_ok |-> delete_ok,
                        store_before |-> history_collection]
    /\ pc' = "handled"
    /\ UNCHANGED <<USE_MEMORY, USE_REACT, SESSION_ID, SERVERLESS_URL, collection,
                   default_images, react, search, runs, startup>>

\* The command `status`: show_status(), which reads the history in memory mode.
Status ==
    /\ pc = "prompt"
    /\ \E line \in Typed("status"), find_ok \in (IF USE_MEMORY THEN BOOLEAN ELSE {TRUE}),
          fs \in [collection -> FileStates] :
        last' = [handler |-> "show_status", input |-> line,
                 read |-> USE_MEMORY,
                 history_count |->
                    IF USE_MEMORY
                    THEN Len(retrieve_session_history(history_collection, USE_MEMORY,
                                                      SESSION_ID, find_ok, fs))
                    ELSE 0,
                 held |-> Len(Find(history_collection, SESSION_ID)),
                 find_ok |-> find_ok]
    /\ pc' = "handled"
    /\ UNCHANGED <<USE_MEMORY, USE_REACT, SESSION_ID, SERVERLESS_URL, collection,
                   history_collection, default_images, react, search, runs, startup>>

\* The command `help`: show_help().
Help ==
    /\ pc = "prompt"
    /\ pc' = "handled"
    /\ \E line \in Typed("help") : last' = [handler |-> "show_help", input |-> line]
    /\ UNCHANGED <<USE_MEMORY, USE_REACT, SESSION_ID, SERVERLESS_URL, collection,
                   history_collection, default_images, react, search, runs, startup>>

\* An input that is empty after strip(): continue.
EmptyInput ==
    /\ pc = "prompt"
    /\ pc' = "handled"
    /\ \E line \in Typed("empty") : last' = [handler |-> "empty_input", input |-> line]
    /\ UNCHANGED <<USE_MEMORY, USE_REACT, SESSION_ID, SERVERLESS_URL, collection,
                   history_collection, default_images, react, search, runs, startup>>

\* Mutant: the exception leaves the loop.
ChatError_Mutant == pc' = "exited" /\ last' = [handler |-> "chat_error"]

\* except Exception (lines 597-598): the error is shown, the loop goes on.
ChatError == pc' = "handled" /\ last' = [handler |-> "chat_error"]

\* input() raises an exception other than KeyboardInterrupt (EOFError at the
\* end of the input).
InputError ==
    /\ pc = "prompt"
    /\ ChatError
    /\ UNCHANGED <<USE_MEMORY, USE_REACT, SESSION_ID, SERVERLESS_URL, collection,
                   history_collection, default_images, react, search, runs, startup>>

\* KeyboardInterrupt, at the prompt or while a ReAct turn runs: it passes the
\* `except Exception` of the handler and ends the loop (lines 594-596).
Interrupt ==
    /\ pc \in {"prompt", "react", "react_pass"}
    /\ pc' = "exited"
    /\ last' = [handler |-> "interrupt"]
    /\ react' = NoReact
    /\ UNCHANGED <<USE_MEMORY, USE_REACT, SESSION_ID, SERVERLESS_URL, collection,
                   history_collection, default_images, search, runs, startup>>

\* The commands quit, exit and q.
Quit ==
    /\ pc = "prompt"
    /\ pc' = "exited"
    /\ \E line \in Typed("quit") : last' = [handler |-> "quit", input |-> line]
    /\ UNCHANGED <<USE_MEMORY, USE_REACT, SESSION_ID, SERVERLESS_URL, collection,
                   history_collection, default_images, react, search, runs, startup>>

\* What initialize_connections may meet.
\*   ping    : admin.command("ping") raises, answers ok != 1, answers ok == 1
\*   count   : count_documents raises or answers
\*   service : the get_api_key request raises, answers a status other than 200,
\*             answers 200 without a usable key, answers 200 with a key
\*   env     : GOOGLE_API_KEY is set
\*   client  : the genai import and genai.Client succeed, raise ImportError,
\*             raise something else
StartupInputs ==
    [ping : {"raise", "not_ok", "ok"}, count : {"raise", "ok"},
     service : {"raise", "status", "no_key", "key"}, env : BOOLEAN,
     client : {"ok", "import_error", "raise"}]

\* Mutant: the environment's key is preferred to the service's.
ApiKeySource_Mutant(url, in) ==
    IF in.env THEN "env"
    ELSE IF url /\ in.service = "key" THEN "service"
    ELSE "none"

\* Where api_key comes from (lines 124-137): the credential service when
\* SERVERLESS_URL is set and the request answers 200 with a key (an exception
\* of the request is passed over, line 134), else GOOGLE_API_KEY.
ApiKeySource(url, in) ==
    IF url /\ in.service = "key" THEN "service"
    ELSE IF in.env THEN "env"
    ELSE "none"

\* api_key after lines 124-137: the service's key or, failing that, the
\* environment's.
ApiKey(url, in) == ApiKeySource(url, in) # "none"

\* Mutant: the empty collection is not checked.
initialize_connections_Mutant(url, docs, in) ==
    IF in.ping # "ok" THEN "ping"
    ELSE IF in.count = "raise" THEN "exception"
    ELSE IF ~ApiKey(url, in) THEN "no_api_key"
    ELSE IF in.client = "import_error" THEN "import_error"
    ELSE IF in.client = "raise" THEN "exception"
    ELSE "ok"

\* initialize_connections: "ok" when it returns True, else where it returned
\* False.
initialize_connections(url, docs, in) ==
    IF in.ping = "raise" THEN "exception"
    ELSE IF in.ping = "not_ok" THEN "ping"
    ELSE IF in.count = "raise" THEN "exception"
    ELSE IF Cardinality(docs) = 0 THEN "no_documents"
    ELSE IF ~ApiKey(url, in) THEN "no_api_key"
    ELSE IF in.client = "import_error" THEN "import_error"
    ELSE IF in.client = "raise" THEN "exception"
    ELSE "ok"

NotStarted == [done |-> FALSE, outcome |-> "none"]
Started == [done |-> TRUE, outcome |-> "ok"]

\* main, lines 554-559: initialize_connections, and return when it failed.
Initialize ==
    /\ pc = "start"
    /\ \E in \in StartupInputs :
        LET outcome == initialize_connections(SERVERLESS_URL, collection, in)
        IN  /\ startup' = [done |-> TRUE, outcome |-> outcome]
            /\ pc' = IF outcome = "ok" THEN "prompt" ELSE "exited"
    /\ UNCHANGED <<USE_MEMORY, USE_REACT, SESSION_ID, SERVERLESS_URL, collection,
                   history_collection, default_images, last, react, search, runs>>

\* Messages a previous run may have left in the history store.
LeftOver ==
    <<Message("s2", "user", "text", <<"x">>, 1),
      Message("s1", "user", "text", <<"x">>, 2),
      Message("s1", "user", "image", PathOf("k1"), 3)>>

\* main after argument parsing (lines 542-544), before initialize_connections.
Init ==
    /\ USE_MEMORY \in BOOLEAN /\ USE_REACT \in BOOLEAN
    /\ SESSION_ID = "s1"
    /\ SERVERLESS_URL \in BOOLEAN
    /\ collection \in {{}, {"k1"}}
    /\ history_collection \in {<< >>, LeftOver}
    /\ pc = "start" /\ default_images = << >>
    /\ last = NoLast
    /\ react = NoReact
    /\ search = NoSearch
    /\ runs = << >>
    /\ startup = NotStarted

Next ==
    \/ Initialize
    \/ GenerateAnswer
    \/ ReactStart
    \/ ReactIterate
    \/ ReactLoop
    \/ ReactExhausted
    \/ Clear
    \/ Status
    \/ Help
    \/ EmptyInput
    \/ InputError
    \/ Interrupt
    \/ Quit
    \/ Loop

Spec == Init /\ [][Next]_vars

---------------------------------------------------------------------------
(* Claims on the ReAct strategy *)

ReactReturned == pc = "handled" /\ last.handler = "generate_answer_react"

\* A step of a running ReAct turn.
ReactStep == ReactIterate \/ ReactExhausted

\* C1: a run of generate_answer_react makes at most 3 reasoning calls,
\* whatever the LLM and the retrieval tool return, and always returns a
\* string.  The loop terminates: a running turn can always take a step, and
\* every step of the turn (a keyboard interrupt is none) either returns or
\* uses up one of the 3 iterations.
C1_BoundedAndTerminates ==
    /\ [](react.llm_calls <= 3)
    /\ [](ReactReturned =>
            /\ last.llm_calls <= 3
            /\ last.result # PY_NONE
            /\ last.result \in Seq(STRING))
    /\ [](pc = "react" => react.current_iteration <= 3 /\ ENABLED ReactStep)
    /\ [](pc = "react_pass" => react.current_iteration <= 3 /\ ENABLED ReactLoop)
    /\ [][(pc = "react" /\ ~Interrupt) =>
            \/ ReactReturned'
            \/ /\ pc' = "react_pass"
               /\ react'.current_iteration = react.current_iteration + 1
               /\ react'.llm_calls = react.llm_calls + 1]_vars
    /\ [][(pc = "react_pass" /\ ~Interrupt) =>
            /\ pc' = "react"
            /\ react'.current_iteration = react.current_iteration
            /\ react'.llm_calls = react.llm_calls]_vars

\* Witness of C1: a turn that used all three reasoning calls, each a search.
C1_Witness ==
    /\ ReactReturned /\ last.llm_calls = 3 /\ last.searches = 3
    /\ last.result = REACT_EXHAUSTED

\* `result` is what follows the first ANSWER: in `text`, without the
\* whitespace around it.
IsTrimmedAnswer(text, result) ==
    \E i \in DOMAIN text :
        /\ text[i] = ANSWER
        /\ \A j \in 1..(i - 1) : text[j] # ANSWER
        /\ \E a, b \in 0..Len(text) :
              /\ i + a + Len(result) + b = Len(text)
              /\ \A j \in (i + 1)..(i + a) : text[j] = WS
              /\ \A j \in 1..Len(result) : text[i + a + j] = result[j]
              /\ \A j \in (i + a + Len(result) + 1)..Len(text) : text[j] = WS
        /\ result # << >> => result[1] # WS /\ result[Len(result)] # WS

HasText(reply) == ~reply.raised /\ ~reply.none /\ reply # NoReply

\* C2: an iteration whose LLM output contains ANSWER: (with or without TOOL:)
\* ends the turn: the text after the marker is returned trimmed, and the
\* iteration makes no retrieval call and is followed by no reasoning call.
C2_AnswerEndsTurn ==
    /\ pc \in {"react", "react_pass"} => ~react.answer_seen
    /\ (ReactReturned /\ HasText(last.reply) /\ Contains(last.reply.value, ANSWER)) =>
          /\ last.how = "answer"
          /\ IsTrimmedAnswer(last.reply.value, last.result)
          /\ ~last.acted
          /\ ~react.active

\* Witness of C2: an output holding TOOL: and then ANSWER:, answered in the
\* second iteration.
C2_Witness ==
    /\ ReactReturned /\ last.how = "answer" /\ last.llm_calls = 2
    /\ last.reply.value = <<TOOL, ANSWER, "x">> /\ last.result = <<"x">>

\* C10: an exception of the LLM provider on a reasoning call ends the turn at
\* once with the fixed ReAct apology: no retrieval in that iteration, no later
\* reasoning call.
C10_ExceptionEndsTurn ==
    (ReactReturned /\ last.reply.raised) =>
        /\ last.result = REACT_APOLOGY
        /\ last.how = "except"
        /\ ~last.acted
        /\ last.llm_calls = last.iterations
        /\ ~react.active

\* Witness of C10: the third reasoning call raises, after two searches.
C10_Witness ==
    /\ ReactReturned /\ last.reply.raised /\ last.llm_calls = 3 /\ last.searches = 2
    /\ last.result = REACT_APOLOGY

---------------------------------------------------------------------------
(* Claims on the direct strategy and the session memory *)

DirectReturned == pc = "handled" /\ last.handler = "generate_answer"

Count(calls, label) == Cardinality({i \in DOMAIN calls : calls[i] = label})

\* C3 (as claimed): with memory disabled, every image passed to the generation
\* call of a direct turn was returned by the vector search of that same turn.
C3_NoCrossTurnReuse ==
    (DirectReturned /\ ~USE_MEMORY) =>
        /\ \A i \in DOMAIN last.contents.images :
              KeyOf(last.contents.images[i].content) \in Range(last.retrieved)
        /\ Len(last.contents.images) <= Len(last.retrieved)

\* C5 (as claimed): a provider error at any step of a direct turn, the tool
\* selection and the retrieval included, yields the fixed apology.
C5_AnyErrorApologizes ==
    (DirectReturned /\ (last.sel_raised \/ last.search_failed \/ last.gen_raised)) =>
        last.result = APOLOGY

\* C5 (amended): an exception of the generation call yields the fixed apology;
\* an exception of the tool-selection call is taken as no tool selected and a
\* failed retrieval as no context, and in both cases the generation call is
\* still made and decides the result; no call is issued twice.
C5_Amended ==
    DirectReturned =>
        /\ last.gen_raised => last.result = APOLOGY
        /\ last.sel_raised =>
              /\ ~last.searched
              /\ Count(last.calls, "generate") = 1
              /\ ~last.gen_raised => last.result \in Answers
        /\ last.search_failed =>
              /\ last.retrieved = << >>
              /\ Count(last.calls, "generate") = 1
              /\ ~last.gen_raised => last.result \in Answers
        /\ \A c \in {"history_find", "select_tool", "embedding", "vector_search", "generate"} :
              Count(last.calls, c) <= 1

\* Witness of C5: the tool selection raised and the turn still answered.
C5_Witness ==
    /\ DirectReturned /\ last.sel_raised /\ ~last.gen_raised
    /\ last.result \in Answers

\* The remote calls of a turn, in the order the code reaches them.
Rank(call) ==
    CASE call = "history_find" -> 1
      [] call = "select_tool" -> 2
      [] call = "embedding" -> 3
      [] call = "vector_search" -> 4
      [] call = "generate" -> 5
      [] OTHER -> 6

IsReadCall(call) == Rank(call) <= 5

\* The calls of a turn follow the order of the code, each at most once.
InSequence(calls) ==
    LET remote == SelectSeq(calls, IsReadCall)
    IN  \A i, j \in DOMAIN remote : i < j => Rank(remote[i]) < Rank(remote[j])

\* The history read is made in memory mode only, the tool selection always,
\* the aggregation only after an embedding request.
CallsAsOrdered ==
    /\ InSequence(last.calls)
    /\ Count(last.calls, "history_find") = (IF USE_MEMORY THEN 1 ELSE 0)
    /\ Count(last.calls, "select_tool") = 1
    /\ Count(last.calls, "embedding") = 1 => last.searched
    /\ Count(last.calls, "vector_search") = 1 =>
          /\ Count(last.calls, "embedding") = 1 /\ SERVERLESS_URL
          /\ last.embedding_reply = "ok"

\* C23 (as claimed): the remote calls of a direct turn are issued in sequence,
\* each at most once, the vector search only after the embedding request, and
\* the generation call exactly once.
C23_CallSequence ==
    DirectReturned => CallsAsOrdered /\ Count(last.calls, "generate") = 1

\* C23 (amended): the same, but the generation call is made exactly once
\* unless the arguments of the selected tool call do not fit
\* vector_search_tool: then neither retrieval nor generation is issued and the
\* turn returns the apology.
C23_Amended ==
    DirectReturned =>
        /\ CallsAsOrdered
        /\ Count(last.calls, "generate") =
              (IF UseTool(last.tool_call) /\ ~last.tool_call.args_ok THEN 0 ELSE 1)
        /\ (UseTool(last.tool_call) /\ ~last.tool_call.args_ok) =>
              /\ ~last.searched /\ last.result = APOLOGY
              /\ Count(last.calls, "embedding") = 0
              /\ Count(last.calls, "vector_search") = 0

\* Witness of C23: a memory-mode turn that issued every call, in the order
\* history read, tool selection, embedding, vector search, generation.
C23_Witness ==
    /\ DirectReturned /\ USE_MEMORY
    /\ SelectSeq(last.calls, IsReadCall) =
          <<"history_find", "select_tool", "embedding", "vector_search", "generate">>

\* The store `after` is the store `before` followed by new messages of the
\* run's session, each stamped later than everything stored before it.
Extends(before, after) ==
    /\ Len(after) > Len(before)
    /\ SubSeq(after, 1, Len(before)) = before
    /\ \A i \in (Len(before) + 1)..Len(after) :
          /\ after[i].session_id = SESSION_ID
          /\ \A j \in 1..(i - 1) : after[j].timestamp < after[i].timestamp

\* C25: the history store is an append-only log under the chat script: a step
\* either leaves it as it is, or appends messages of the run's session behind
\* the unchanged stored ones, or is the clear command in memory mode, which
\* removes exactly the messages of the run's session.
C25_AppendOnly ==
    [][\/ history_collection' = history_collection
       \/ /\ Extends(history_collection, history_collection')
          /\ USE_MEMORY /\ last'.handler = "generate_answer"
       \/ /\ USE_MEMORY /\ last'.handler = "clear_history" /\ last'.delete_ok
          /\ history_collection' =
                SelectSeq(history_collection, LAMBDA m : m.session_id # SESSION_ID)]_vars

\* Witness of C25: a turn appended to a store that already held messages.
C25_Witness ==
    /\ DirectReturned /\ USE_MEMORY
    /\ last.store_before # << >>
    /\ Len(history_collection) > Len(last.store_before)
    /\ SubSeq(history_collection, 1, Len(last.store_before)) = last.store_before

\* C6: with memory disabled nothing is written to, read from or deleted from
\* the history store, whatever it holds, and the contents of the generation
\* call are the system prompt, the query and the images alone.
C6_MemoryDisabledNoOp ==
    ~USE_MEMORY =>
        /\ pc = "handled" /\ last.handler \in {"generate_answer", "clear_history"}
              => history_collection = last.store_before
        /\ DirectReturned =>
              /\ last.contents.history = << >>
              /\ Count(last.calls, "history_find") = 0
              /\ Count(last.calls, "insert") = 0
        /\ pc = "handled" /\ last.handler = "clear_history"
              => last.report = "not_enabled" /\ last.deleted_count = 0
        /\ pc = "handled" /\ last.handler = "show_status" => ~last.read
        /\ \A find_ok \in BOOLEAN, fs \in [collection -> FileStates] :
              retrieve_session_history(history_collection, USE_MEMORY, SESSION_ID,
                                       find_ok, fs) = << >>

\* Witness of C6: clear with memory disabled on a store that holds messages of
\* this very session id.
C6_Witness ==
    /\ ~USE_MEMORY /\ pc = "handled" /\ last.handler = "clear_history"
    /\ Len(Find(history_collection, SESSION_ID)) = 2

\* C7: with memory enabled, a clear that the store carries out on a session of
\* n messages removes the n, reports n, and leaves a history that reads empty.
C7_ClearRemovesAll ==
    (USE_MEMORY /\ pc = "handled" /\ last.handler = "clear_history" /\ last.delete_ok) =>
        /\ last.report = "cleared"
        /\ last.deleted_count = last.held
        /\ Len(history_collection) = Len(last.store_before) - last.held
        /\ Find(history_collection, SESSION_ID) = << >>
        /\ \A find_ok \in BOOLEAN, fs \in [collection -> FileStates] :
              retrieve_session_history(history_collection, USE_MEMORY, SESSION_ID,
                                       find_ok, fs) = << >>

\* Witness of C7: a clear on a session of 5 stored messages.
C7_Witness ==
    /\ USE_MEMORY /\ pc = "handled" /\ last.handler = "clear_history"
    /\ last.held = 5 /\ last.deleted_count = 5

\* The store holds a message of this run's session with that role, type and
\* content.
Holds(store, role, type, content) ==
    \E i \in DOMAIN store :
        /\ store[i].session_id = SESSION_ID /\ store[i].role = role
        /\ store[i].type = type /\ store[i].content = content

\* C14 (as claimed): with memory enabled, a turn that produced an answer has
\* appended at least the user query and the agent answer to the history store
\* under the session id, under the direct and under the ReAct strategy alike
\* (the store accepting the inserts it is sent).
C14_EveryAnswerStored ==
    USE_MEMORY =>
        /\ (DirectReturned /\ ~last.raised /\ \A i \in DOMAIN last.insert_oks : last.insert_oks[i]) =>
              /\ Len(history_collection) >= Len(last.store_before) + 2
              /\ Holds(history_collection, "user", "text", last.query)
              /\ Holds(history_collection, "agent", "text", last.result)
        /\ (pc = "handled" /\ last.handler = "generate_answer_react" /\ last.how = "answer") =>
              /\ Holds(history_collection, "user", "text", last.query)
              /\ Holds(history_collection, "agent", "text", last.result)

\* The session's stored history as a read finds it when every file loads.
StoredHistory(store) ==
    HistoryItems(Cursor(store, SESSION_ID), [k \in Keys |-> "ok"])

TimestampOrdered(msgs) ==
    \A i, j \in DOMAIN msgs : i < j => msgs[i].timestamp <= msgs[j].timestamp

\* C15 (as claimed): with memory enabled the stored history of the session is
\* replayed into every orchestration call of either strategy: in timestamp
\* order it precedes the new query in the contents of the tool-selection call
\* and of the generation call of a direct turn, where the new query appears
\* once, and it is part of the contents of every ReAct reasoning call.
C15_HistoryReplayed ==
    USE_MEMORY =>
        /\ (DirectReturned /\ last.find_ok) =>
              /\ TimestampOrdered(Cursor(last.store_before, SESSION_ID))
              /\ \E fs \in [collection -> FileStates] :
                    last.contents.history
                        = HistoryItems(Cursor(last.store_before, SESSION_ID), fs)
              /\ last.tool_contents = last.contents.history \o <<Text(last.query)>>
              /\ last.contents.query = last.query
        /\ (pc = "react" /\ LoopGuard(react.current_iteration)) =>
              \A i \in DOMAIN StoredHistory(history_collection) :
                  StoredHistory(history_collection)[i] \in Range(ReactContents(react))

\* C17: a direct turn calls the retrieval tool at most once, and exactly when
\* the tool selection is present and names
\* get_information_for_question_answering; the call is made with the
\* selection's arguments (arguments the tool does not take make the call, and
\* with it the turn, fail); with no selection or another tool's name the
\* generation call is made without any retrieval.
C17_RetrievalOnlyWhenSelected ==
    DirectReturned =>
        /\ Count(last.calls, "vector_search_tool") <= 1
        /\ Count(last.calls, "embedding") <= 1
        /\ Count(last.calls, "vector_search") <= 1
        /\ Count(last.calls, "vector_search_tool") = 1
              <=> (last.tool_call # NoCall /\ last.tool_call.name = RETRIEVAL_TOOL)
        /\ last.searched
              <=> (Count(last.calls, "vector_search_tool") = 1 /\ last.tool_call.args_ok)
        /\ (Count(last.calls, "vector_search_tool") = 1 /\ ~last.tool_call.args_ok) =>
              last.result = APOLOGY /\ Count(last.calls, "generate") = 0
        /\ Count(last.calls, "vector_search_tool") = 0 =>
              /\ Count(last.calls, "generate") = 1
              /\ Count(last.calls, "embedding") = 0
              /\ Count(last.calls, "vector_search") = 0
              /\ last.retrieved = << >>
              /\ last.images = last.images_before

\* Witness of C17: the selection names another tool and the turn answers
\* without retrieval.
C17_Witness ==
    /\ DirectReturned /\ last.tool_call = FunctionCall("other_tool", TRUE)
    /\ ~last.searched /\ last.result \in Answers

\* C19 (as claimed): when the retrieval of a direct turn fails and returns the
\* empty list, on the first or on any later turn, the generation call is
\* still issued, with no context image, and its text is returned.
C19_FailedRetrievalNoContext ==
    (DirectReturned /\ last.search_failed) =>
        /\ Count(last.calls, "generate") = 1
        /\ last.contents.images = << >>
        /\ ~last.gen_raised => last.result \in Answers

\* The messages the session gained since `before`, as (role, type, content).
Appended(before, after) ==
    LET old == Len(SelectSeq(before, LAMBDA m : m.session_id = SESSION_ID))
        now == SelectSeq(after, LAMBDA m : m.session_id = SESSION_ID)
    IN  [i \in 1..(Len(now) - old) |->
            <<now[old + i].role, now[old + i].type, now[old + i].content>>]

AllInserted == \A i \in DOMAIN last.insert_oks : last.insert_oks[i]

\* C16 (as claimed): with memory enabled, a successful direct turn, the first
\* or a later one, appends exactly the user's query, one user image message
\* per context item retrieved in this turn, and the agent's answer, in this
\* order (the store accepting the inserts).
C16_TurnStoredExactly ==
    (USE_MEMORY /\ DirectReturned /\ ~last.raised /\ AllInserted) =>
        Appended(last.store_before, history_collection)
            = <<<<"user", "text", last.query>>>>
              \o [i \in DOMAIN last.retrieved |->
                    <<"user", "image", PathOf(last.retrieved[i])>>]
              \o <<<<"agent", "text", last.result>>>>

\* C28: with memory enabled, a direct turn that an exception ends with the
\* apology stores nothing: the history store is as it was before the turn;
\* and an insert that fails does not change the turn's answer, which is the
\* text of the generation call.
C28_ApologyStoresNothing ==
    (USE_MEMORY /\ DirectReturned) =>
        /\ last.raised =>
              /\ last.result = APOLOGY
              /\ history_collection = last.store_before
              /\ last.insert_oks = << >>
        /\ ~last.raised =>
              /\ last.result \in Answers /\ last.result # APOLOGY
              /\ Len(last.insert_oks) = 2 + Len(last.images)
              /\ Len(history_collection) - Len(last.store_before)
                    = Cardinality({i \in DOMAIN last.insert_oks : last.insert_oks[i]})
        /\ ~AllInserted => ~last.raised /\ last.result \in Answers

\* Witness of C28: the generation call raised after images were retrieved; the
\* store, which held messages, is unchanged.
C28_Witness ==
    /\ USE_MEMORY /\ DirectReturned /\ last.gen_raised /\ last.result = APOLOGY
    /\ last.retrieved # << >> /\ last.store_before # << >>
    /\ history_collection = last.store_before

\* Witness of the second half of C28: every insert of a turn failed and the
\* generated answer was returned.
C28_StoreFailureWitness ==
    /\ USE_MEMORY /\ DirectReturned /\ ~last.raised /\ last.result \in Answers
    /\ \A i \in DOMAIN last.insert_oks : ~last.insert_oks[i]
    /\ history_collection = last.store_before

---------------------------------------------------------------------------
(* Claims on startup and the chat loop *)

InChatLoop == pc \in {"prompt", "react", "react_pass", "handled"}

\* C11: no query reaches generate_answer or generate_answer_react unless
\* initialize_connections returned True; it returns False, and main exits
\* before the chat loop, when the ping fails, the collection is empty or no
\* API key is obtainable from the credential service or from GOOGLE_API_KEY.
C11_StartupGate ==
    /\ InChatLoop => startup = Started
    /\ (react.active \/ last.handler \in {"generate_answer", "generate_answer_react"})
          => startup = Started
    /\ startup = Started => collection # {}
    /\ (startup.done /\ startup.outcome # "ok") =>
          /\ pc = "exited" /\ last = NoLast /\ ~react.active
          /\ default_images = << >>
    /\ \A in \in StartupInputs :
          (\/ in.ping # "ok"
           \/ collection = {}
           \/ ~((SERVERLESS_URL /\ in.service = "key") \/ in.env))
              => initialize_connections(SERVERLESS_URL, collection, in) # "ok"

\* Witness of C11: main has exited at startup for want of an API key, the
\* store being reachable and filled.
C11_Witness ==
    /\ pc = "exited" /\ startup.outcome = "no_api_key" /\ collection # {}
    /\ last = NoLast

\* C12: after a successful startup no failure while handling a turn ends the
\* loop: an exception other than a keyboard interrupt (the end of input at
\* the prompt included) is caught and the loop prompts again, as it does
\* after every handler, whatever the handler met; the loop ends only on
\* quit/exit/q or on a keyboard interrupt.
C12_LoopSurvives ==
    /\ [][(InChatLoop /\ pc' = "exited") => last'.handler \in {"quit", "interrupt"}]_vars
    /\ [](pc = "handled" => ENABLED Loop)
    /\ [](last.handler \in {"chat_error", "generate_answer", "generate_answer_react",
                             "clear_history", "show_status"} => pc = "handled")
    /\ [][pc = "handled" => pc' = "prompt"]_vars

\* Witness of C12: the end of input was met at the prompt and the loop is
\* about to prompt again.
C12_Witness == pc = "handled" /\ last.handler = "chat_error" /\ startup = Started

\* The typed lines that are each command once trimmed and lowered, spelled out.
LinesOf(handler) ==
    CASE handler = "empty_input" -> {<< >>, <<WS>>}
      [] handler = "show_help" -> {<<"help">>, <<WS, "HELP", WS>>}
      [] handler = "clear_history" -> {<<"clear">>, <<"Clear", WS>>}
      [] handler = "show_status" -> {<<"status">>, <<WS, "STATUS">>}
      [] handler = "quit" -> {<<"quit">>, <<"EXIT">>, <<"q">>, <<"Q", WS>>}

CommandHandlers == {"empty_input", "show_help", "clear_history", "show_status"}

\* C27: an empty line and the commands help, status and clear, in any case and
\* with surrounding whitespace, run their own handler, which starts no
\* strategy, calls neither the LLM nor the retrieval tool and appends nothing
\* to the history store; a line that is none of these nor quit/exit/q goes to
\* exactly one strategy, ReAct exactly when --react was given; the two mode
\* flags never change.
C27_CommandsAndDispatch ==
    /\ [][pc = "prompt" =>
            /\ last'.handler \in CommandHandlers =>
                  /\ last'.input \in LinesOf(last'.handler)
                  /\ pc' = "handled"
                  /\ react' = NoReact /\ default_images' = default_images
                  /\ search' = search
                  /\ Len(history_collection') <= Len(history_collection)
                  /\ last'.handler # "clear_history" =>
                        history_collection' = history_collection
            /\ last'.handler = "quit" =>
                  last'.input \in LinesOf("quit") /\ pc' = "exited"
            /\ pc' = "react" =>
                  /\ USE_REACT /\ react'.active
                  /\ react'.user_query \in Queries /\ react'.llm_calls = 0
                  /\ last' = last
            /\ last'.handler = "generate_answer" =>
                  ~USE_REACT /\ last'.query \in Queries /\ react' = NoReact]_vars
    /\ [](pc = "prompt" =>
            /\ ENABLED EmptyInput /\ ENABLED Help /\ ENABLED Clear /\ ENABLED Status
            /\ (USE_REACT /\ RoomForTurn) => ENABLED ReactStart /\ ~ENABLED GenerateAnswer
            /\ (~USE_REACT /\ RoomForTurn) => ENABLED GenerateAnswer /\ ~ENABLED ReactStart)
    /\ [][USE_MEMORY' = USE_MEMORY /\ USE_REACT' = USE_REACT]_vars
    /\ [](Lines = UNION {LinesOf(h) : h \in CommandHandlers \cup {"quit"}}
                     \cup Queries \cup {<<WS>> \o q \o <<WS>> : q \in Queries})

\* Witness of C27: HELP typed in capitals between blanks was taken as the help
\* command in a run started with --react.
C27_Witness ==
    /\ pc = "handled" /\ last.handler = "show_help" /\ last.input = <<WS, "HELP", WS>>
    /\ USE_REACT /\ react = NoReact

---------------------------------------------------------------------------
(* SpecShared: two runs with memory enabled and different session ids share one
   history store; their appends, history reads and clears interleave *)

RunIds == {1, 2}

\* What a run stores: contents that name its session, so that a read shows
\* whose messages it returns.
RunContent(session_id, type) ==
    IF type = "text" THEN <<session_id>>
    ELSE PathOf(IF session_id = "s1" THEN "k1" ELSE "k2")

InitShared ==
    /\ USE_MEMORY = TRUE /\ USE_REACT = FALSE /\ SESSION_ID = "s1"
    /\ SERVERLESS_URL = TRUE
    /\ collection = DocKeys(2)
    /\ history_collection = << >>
    /\ pc = "shared" /\ default_images = << >>
    /\ last = NoLast
    /\ react = NoReact
    /\ search = NoSearch
    /\ startup = Started
    /\ runs = [r \in RunIds |-> [SESSION_ID |-> IF r = 1 THEN "s1" ELSE "s2",
                                 USE_MEMORY |-> TRUE]]

\* Run r calls store_chat_message.
RunStore(r) ==
    /\ Len(history_collection) < MaxShared /\ Now(history_collection) <= MaxClock
    /\ \E role \in {"user", "agent"}, type \in {"text", "image"}, ok \in BOOLEAN :
        /\ history_collection' =
              store_chat_message(history_collection, runs[r].USE_MEMORY,
                                 runs[r].SESSION_ID, role, type,
                                 RunContent(runs[r].SESSION_ID, type), ok)
        /\ last' = [handler |-> "store_chat_message", run |-> r,
                    store_before |-> history_collection]
    /\ UNCHANGED <<USE_MEMORY, USE_REACT, SESSION_ID, SERVERLESS_URL, collection,
                   pc, default_images, react, search, runs, startup>>

\* Run r calls retrieve_session_history.
RunRead(r) ==
    /\ \E find_ok \in BOOLEAN, fs \in [collection -> FileStates] :
        last' = [handler |-> "retrieve_session_history", run |-> r,
                 find_ok |-> find_ok, fs |-> fs,
                 items |-> retrieve_session_history(history_collection,
                              runs[r].USE_MEMORY, runs[r].SESSION_ID, find_ok, fs)]
    /\ UNCHANGED <<USE_MEMORY, USE_REACT, SESSION_ID, SERVERLESS_URL, collection,
                   history_collection, pc, default_images, react, search, runs, startup>>

\* Run r calls clear_history.
RunClear(r) ==
    /\ \E delete_ok \in BOOLEAN :
        LET c == clear_history(history_collection, runs[r].USE_MEMORY,
                               runs[r].SESSION_ID, delete_ok)
        IN  /\ history_collection' = c.store
            /\ last' = [handler |-> "clear_history", run |-> r,
                        report |-> c.report, deleted_count |-> c.deleted_count,
                        store_before |-> history_collection]
    /\ UNCHANGED <<USE_MEMORY, USE_REACT, SESSION_ID, SERVERLESS_URL, collection,
                   pc, default_images, react, search, runs, startup>>

NextShared == \E r \in RunIds : RunStore(r) \/ RunRead(r) \/ RunClear(r)

SpecShared == InitShared /\ [][NextShared]_vars

\* The messages of a store that carry the session id.
MessagesOf(store, session_id) == SelectSeq(store, LAMBDA m : m.session_id = session_id)

OtherSessionsKept(run) ==
    \A s \in Sessions \ {runs[run].SESSION_ID} :
        MessagesOf(history_collection, s) = MessagesOf(last.store_before, s)

\* C8: history is session-scoped under every interleaving of two runs: a read
\* for session s returns the messages stored under s and no other, and a clear
\* (like an append) for session s leaves the messages of the other session as
\* they were.
C8_SessionScoped ==
    /\ last.handler = "retrieve_session_history" =>
          /\ \A i \in DOMAIN last.items :
                last.items[i].content
                    = RunContent(runs[last.run].SESSION_ID, last.items[i].type)
          /\ Len(last.items)
                <= Len(MessagesOf(history_collection, runs[last.run].SESSION_ID))
          /\ (last.find_ok /\ \A k \in collection : last.fs[k] = "ok") =>
                Len(last.items)
                    = Len(MessagesOf(history_collection, runs[last.run].SESSION_ID))
    /\ last.handler = "clear_history" =>
          /\ OtherSessionsKept(last.run)
          /\ last.report = "cleared" =>
                /\ MessagesOf(history_collection, runs[last.run].SESSION_ID) = << >>
                /\ last.deleted_count =
                      Len(MessagesOf(last.store_before, runs[last.run].SESSION_ID))
    /\ last.handler = "store_chat_message" => OtherSessionsKept(last.run)

\* Witness of C8: run 1 reads its single message from a store that also holds
\* two messages of run 2.
C8_Witness ==
    /\ last.handler = "retrieve_session_history" /\ last.run = 1
    /\ Len(last.items) = 1
    /\ Len(MessagesOf(history_collection, "s2")) = 2

\* Witness of the clear of C8: run 2 cleared its messages, those of run 1 stay.
C8_ClearWitness ==
    /\ last.handler = "clear_history" /\ last.run = 2 /\ last.deleted_count = 2
    /\ Len(MessagesOf(history_collection, "s1")) = 1

---------------------------------------------------------------------------
(* SpecLoad: the chat loop without memory on a collection of two documents,
   whose image files may each be there, be missing or fail to open *)

InitLoad ==
    /\ USE_MEMORY = FALSE /\ USE_REACT \in BOOLEAN /\ SESSION_ID = "s1"
    /\ SERVERLESS_URL = TRUE
    /\ collection = DocKeys(2)
    /\ history_collection = << >>
    /\ pc = "start" /\ default_images = << >>
    /\ last = NoLast
    /\ react = NoReact
    /\ search = NoSearch
    /\ runs = << >>
    /\ startup = NotStarted

NextLoad ==
    \/ Initialize
    \/ GenerateAnswer
    \/ ReactStart
    \/ ReactIterate
    \/ ReactLoop
    \/ ReactExhausted
    \/ Loop

SpecLoad == InitLoad /\ [][NextLoad]_vars

\* The keys of `keys` that are not in `skipped`, in order.
Kept(keys, skipped) == SelectSeq(keys, LAMBDA k : k \notin skipped)

IsTrimmedAfter(text, marker, result) ==
    \E i \in DOMAIN text :
        /\ text[i] = marker
        /\ \A j \in 1..(i - 1) : text[j] # marker
        /\ \E a \in 0..Len(text) :
              /\ i + a + Len(result) <= Len(text)
              /\ \A j \in (i + 1)..(i + a) : text[j] = WS
              /\ \A j \in 1..Len(result) : text[i + a + j] = result[j]
              /\ \A j \in (i + a + Len(result) + 1)..Len(text) : text[j] = WS
        /\ result # << >> => result[1] # WS /\ result[Len(result)] # WS

ToolStepDone == pc = "react_pass" /\ react.branch = "tool"

\* C20: a ReAct iteration whose output contains TOOL: and not ANSWER: calls the
\* retrieval tool exactly once, with the trimmed text after the marker; a
\* non-empty result appends its loadable items to the accumulated information,
\* an empty result appends the "No relevant information found" marker; the
\* next reasoning call is made on the updated information.
C20_ToolStep ==
    /\ [](ToolStepDone =>
            /\ Contains(react.decision, TOOL) /\ ~Contains(react.decision, ANSWER)
            /\ IsTrimmedAfter(react.decision, TOOL, react.tool_query)
            /\ react.acted
            /\ react.tool_images # << >> =>
                  react.current_information
                      = react.info_before \o Images(Kept(react.tool_images, react.skipped))
            /\ react.tool_images = << >> =>
                  react.current_information
                      = Append(react.info_before, Text(<<NO_INFO>>))
            /\ ReactContents(react)
                  = <<Text(react.user_query)>> \o react.current_information)
    /\ []((pc = "react_pass" /\ react.branch = "unclear") =>
            ~Contains(react.decision, TOOL) /\ ~react.acted)
    /\ [][(pc = "react" /\ pc' = "react_pass") =>
            /\ react'.info_before = react.current_information
            /\ react'.searches = react.searches + (IF react'.branch = "tool" THEN 1 ELSE 0)]_vars
    /\ [][(pc = "react_pass" /\ pc' = "react") =>
            /\ react'.current_information = react.current_information
            /\ ReactContents(react') = <<Text(react.user_query)>> \o react.current_information]_vars

\* Witness of C20: an iteration asked for a search that found nothing, after
\* one whose search added an image.
C20_Witness ==
    /\ ToolStepDone /\ react.current_iteration = 2
    /\ react.decision = <<TOOL, WS, "x">> /\ react.tool_query = <<"x">>
    /\ react.current_information = <<Image("k1"), Text(<<NO_INFO>>)>>

UnclearStepDone == pc = "react_pass" /\ react.branch = "unclear"

\* C21: a ReAct iteration whose output holds neither ANSWER: nor TOOL: makes
\* no retrieval, appends the "Unable to determine next action." marker and
\* uses up one of the 3 iterations: after three such outputs the turn ends.
C21_UnclearStep ==
    /\ [](UnclearStepDone =>
            /\ ~Contains(react.decision, ANSWER) /\ ~Contains(react.decision, TOOL)
            /\ ~react.acted /\ react.tool_images = << >>
            /\ react.current_information = Append(react.info_before, Text(<<UNCLEAR>>)))
    /\ [][(pc = "react" /\ pc' = "react_pass"
              /\ ~Contains(react'.decision, ANSWER) /\ ~Contains(react'.decision, TOOL)) =>
            /\ react'.branch = "unclear"
            /\ react'.searches = react.searches
            /\ react'.current_iteration = react.current_iteration + 1]_vars
    /\ []((pc = "react" /\ react.current_iteration = 3) =>
            ENABLED ReactExhausted /\ ~ENABLED ReactIterate)
    /\ []((ReactReturned /\ last.how = "exhausted") => last.iterations = 3)

\* Witness of C21: three unclear outputs in a row ended the turn, without a
\* search.
C21_Witness ==
    /\ ReactReturned /\ last.how = "exhausted" /\ last.searches = 0
    /\ last.information = <<Text(<<UNCLEAR>>), Text(<<UNCLEAR>>), Text(<<UNCLEAR>>)>>

C24_NoRepeatDetection ==
    /\ [](pc \in {"react", "react_pass"} =>
            react.repeats <= react.searches /\ react.searches <= react.llm_calls)
    /\ [][(pc = "react" /\ pc' = "react_pass" /\ Branch(react'.decision) = "tool") =>
            /\ react'.tool_query = Strip(AfterFirst(react'.decision, TOOL))
            /\ react'.searches = react.searches + 1
            /\ react'.tool_query = PHRASE => react'.repeats = react.repeats + 1]_vars
    /\ []((ReactReturned /\ last.repeats = 3) =>
            /\ last.how = "exhausted" /\ last.result = REACT_EXHAUSTED
            /\ last.searches = 3 /\ last.llm_calls = 3)

\* Witness of C24: the same phrase was searched in all 3 iterations and the
\* turn ended with the exhausted message.
C24_Witness ==
    /\ ReactReturned /\ last.how = "exhausted" /\ last.result = REACT_EXHAUSTED
    /\ last.repeats = 3 /\ last.searches = 3 /\ last.llm_calls = 3

IsPrefix(s, t) == Len(s) <= Len(t) /\ SubSeq(t, 1, Len(s)) = s

\* The retrieval of the pass returned images and none of them could be loaded.
NothingLoaded ==
    /\ react.branch = "tool" /\ react.tool_images # << >>
    /\ Range(react.tool_images) \subseteq react.skipped

\* current_information starts empty in every turn and is only ever extended.
OnlyGrows ==
    /\ [][(pc = "prompt" /\ pc' = "react") => react'.current_information = << >>]_vars
    /\ [][(pc = "react" /\ pc' = "react_pass") =>
            IsPrefix(react.current_information, react'.current_information)]_vars
    /\ [][(pc = "react_pass" /\ pc' = "react") =>
            react'.current_information = react.current_information]_vars

\* C29 (as claimed): the accumulated information starts empty in every turn,
\* only grows, and every iteration that does not end the turn makes it
\* strictly longer, so that the next reasoning call never gets the contents of
\* the one before.
C29_StrictGrowth ==
    /\ OnlyGrows
    /\ [](pc = "react_pass" =>
            /\ Len(react.current_information) > Len(react.info_before)
            /\ ReactContents(react)
                  # <<Text(react.user_query)>> \o react.info_before)

\* C29 (amended): the accumulated information starts empty in every turn and
\* only grows; an iteration that does not end the turn makes it strictly
\* longer, except a TOOL: iteration whose search returned images none of which
\* could be loaded: it adds nothing, and the next reasoning call gets the
\* same contents as the one before.
C29_Amended ==
    /\ OnlyGrows
    /\ [](pc = "react_pass" =>
            /\ IsPrefix(react.info_before, react.current_information)
            /\ NothingLoaded <=> react.current_information = react.info_before
            /\ NothingLoaded <=>
                  ReactContents(react) = <<Text(react.user_query)>> \o react.info_before
            /\ ~NothingLoaded =>
                  Len(react.current_information) > Len(react.info_before))

\* Witness of C29: the second iteration searched, the image found could not be
\* loaded, and the third reasoning call is about to get the contents of the
\* second.
C29_Witness ==
    /\ pc = "react_pass" /\ react.current_iteration = 2 /\ NothingLoaded
    /\ react.info_before = <<Text(<<UNCLEAR>>)>>
    /\ react.current_information = react.info_before

---------------------------------------------------------------------------
(* SpecNormalize: the two normalization steps applied once to every vector *)

Vectors == SeqsUpTo((0 - MaxCoord)..MaxCoord, MaxDim)

InitNormalize ==
    /\ USE_MEMORY = FALSE /\ USE_REACT = FALSE /\ SESSION_ID = "s1"
    /\ SERVERLESS_URL = TRUE
    /\ collection = {"k1"}
    /\ history_collection = << >>
    /\ pc = "normalize" /\ default_images = << >>
    /\ last = NoLast
    /\ react = NoReact
    /\ search = NoSearch
    /\ runs = << >>
    /\ startup = Started

\* Lines 177-180 of generate_query_embedding on the embedding v.
NormalizeEmbedding ==
    /\ last = NoLast
    /\ \E v \in Vectors :
        last' = [handler |-> "generate_query_embedding", v |-> v, result |-> Normalize(v)]
    /\ UNCHANGED <<USE_MEMORY, USE_REACT, SESSION_ID, SERVERLESS_URL, collection,
                   history_collection, pc, default_images, react, search, runs, startup>>

\* normalize_vector(v) of the debug script.
NormalizeVector ==
    /\ last = NoLast
    /\ \E v \in Vectors :
        last' = [handler |-> "normalize_vector", v |-> v, result |-> normalize_vector(v)]
    /\ UNCHANGED <<USE_MEMORY, USE_REACT, SESSION_ID, SERVERLESS_URL, collection,
                   history_collection, pc, default_images, react, search, runs, startup>>

NextNormalize == NormalizeEmbedding \/ NormalizeVector

SpecNormalize == InitNormalize /\ [][NextNormalize]_vars

Normalized == last.handler \in {"generate_query_embedding", "normalize_vector"}

\* C13: both normalization steps divide by the Euclidean norm when it is
\* greater than 0, which gives a vector of norm 1 (the squared length of the
\* numerator equals the squared divisor), and give back the zero vector as it
\* is; the divisor is never 0.
C13_Normalization ==
    Normalized =>
        /\ last.result.den2 > 0
        /\ last.result.num = last.v
        /\ (\E i \in DOMAIN last.v : last.v[i] # 0) =>
              NormSq(last.result.num) = last.result.den2
        /\ (\A i \in DOMAIN last.v : last.v[i] = 0) => last.result.den2 = 1

\* Witness of C13: normalize_vector met the zero vector of two components.
C13_Witness ==
    /\ last.handler = "normalize_vector" /\ last.v = <<0, 0>>
    /\ last.result = [num |-> <<0, 0>>, den2 |-> 1]

---------------------------------------------------------------------------
(* SpecSearch: vector_search_tool applied once to every embedding reply and
   every scored store of up to MaxDocs documents *)

InitSearch ==
    /\ USE_MEMORY = FALSE /\ USE_REACT = FALSE /\ SESSION_ID = "s1"
    /\ SERVERLESS_URL \in BOOLEAN
    /\ collection \in (SUBSET DocKeys(MaxDocs)) \ {{}}
    /\ history_collection = << >>
    /\ pc = "prompt" /\ default_images = << >>
    /\ last = NoLast
    /\ react = NoReact
    /\ search = NoSearch
    /\ runs = << >>
    /\ startup = Started

CallVectorSearch ==
    /\ ~search.called
    /\ \E reply \in EmbeddingReplies, score \in [collection -> 0..MaxScore] :
        \E agg \in Aggregations(collection, score) :
            search' = SearchRecord(SERVERLESS_URL, reply, score, agg)
    /\ UNCHANGED <<USE_MEMORY, USE_REACT, SESSION_ID, SERVERLESS_URL, collection,
                   history_collection, pc, default_images, last, react, runs, startup>>

NextSearch == CallVectorSearch

SpecSearch == InitSearch /\ [][NextSearch]_vars

\* The embedding step of the recorded call failed: no service configured, the
\* service unreachable, a non-200 status, or a body without "embedding".
EmbeddingFailed ==
    \/ ~search.url
    \/ search.reply.kind = "unreachable"
    \/ search.reply.code # 200
    \/ search.reply.kind = "no_field"

\* C4: vector_search_tool never raises to its caller, and returns the empty
\* list when the embedding service is not configured, is unreachable, answers
\* a non-200 status or a body without "embedding", or when the aggregation fails.
C4_NeverRaises ==
    search.called =>
        /\ ~search.raised
        /\ (EmbeddingFailed \/ search.agg.raised) => search.keys = << >>

\* Witnesses of C4: a failed aggregation after a good embedding, and a body
\* without the "embedding" field.
C4_Witness ==
    /\ search.called /\ search.url /\ search.reply.kind = "ok"
    /\ search.reply.embedding = <<3, 4>> /\ search.agg.raised /\ search.keys = << >>

\* C9: a result of vector_search_tool holds at most 2 keys, in descending order
\* of the similarity score of their documents; a store of two matches yields
\* both, the better first.
C9_TopTwoDescending ==
    search.called =>
        /\ Len(search.keys) <= 2
        /\ Range(search.keys) \subseteq collection
        /\ \A i, j \in DOMAIN search.keys :
              i < j => search.score[search.keys[i]] >= search.score[search.keys[j]]
        /\ (~EmbeddingFailed /\ search.reply.embedding # << >> /\ ~search.agg.raised
                /\ Cardinality(collection) >= 2)
             => /\ Len(search.keys) = 2
                /\ \A d \in collection : search.score[search.keys[2]] >= search.score[d]
                      \/ d = search.keys[1]

\* Witness of C9: a store of three documents with distinct scores, two returned.
C9_Witness ==
    /\ search.called /\ Len(search.keys) = 2 /\ Cardinality(collection) = 3
    /\ search.score[search.keys[1]] > search.score[search.keys[2]]
    /\ \E d \in collection \ Range(search.keys) :
          search.score[search.keys[2]] > search.score[d]

---------------------------------------------------------------------------
(* SpecHistory: retrieve_session_history with memory enabled, read from every
   small store of text and image messages of two sessions, stored in any order
   of their timestamps, with every state of the image files *)

MaxHistory == 3

\* The text stored at time ts (which tells the messages apart in a result) and
\* the image stored at time ts.
TextAt(ts) == [i \in 1..ts |-> "x"]
ImageKeyAt(ts) == IF ts % 2 = 1 THEN "k1" ELSE "k2"

HistoryMessages ==
    {Message(s, "user", "text", TextAt(ts), ts) : s \in Sessions, ts \in 1..MaxHistory}
    \cup {Message(s, "user", "image", PathOf(ImageKeyAt(ts)), ts) :
              s \in Sessions, ts \in 1..MaxHistory}

\* datetime.now() gives every message a timestamp of its own.
HistoryStores ==
    {st \in SeqsUpTo(HistoryMessages, MaxHistory) :
        \A i, j \in DOMAIN st : i # j => st[i].timestamp # st[j].timestamp}

InitHistory ==
    /\ USE_MEMORY = TRUE /\ USE_REACT = FALSE /\ SESSION_ID = "s1"
    /\ SERVERLESS_URL = TRUE
    /\ collection = DocKeys(2)
    /\ history_collection \in HistoryStores
    /\ pc = "history" /\ default_images = << >>
    /\ last = NoLast
    /\ react = NoReact
    /\ search = NoSearch
    /\ runs = << >>
    /\ startup = Started

\* retrieve_session_history(SESSION_ID)
RetrieveHistory ==
    /\ pc = "history"
    /\ \E find_ok \in BOOLEAN, fs \in [collection -> FileStates] :
        last' = [handler |-> "retrieve_session_history", find_ok |-> find_ok, fs |-> fs,
                 items |-> retrieve_session_history(history_collection, USE_MEMORY,
                                                    SESSION_ID, find_ok, fs)]
    /\ UNCHANGED <<USE_MEMORY, USE_REACT, SESSION_ID, SERVERLESS_URL, collection,
                   history_collection, pc, default_images, react, search, runs, startup>>

NextHistory == RetrieveHistory

SpecHistory == InitHistory /\ [][NextHistory]_vars

\* The positions of the stored messages a read returns an item for: those of
\* the session that are texts or images whose file loads.
Returnable(store, fs) ==
    {i \in DOMAIN store :
        /\ store[i].session_id = SESSION_ID
        /\ store[i].type = "text" \/ fs[KeyOf(store[i].content)] = "ok"}

\* How many returnable messages are older than the one at position i.
OlderThan(store, fs, i) ==
    Cardinality({j \in Returnable(store, fs) : store[j].timestamp < store[i].timestamp})

\* C26: with memory enabled retrieve_session_history returns one item for each
\* message of the session that is a text or an image whose file loads, in
\* ascending order of the timestamps: the content of a text, the opened image of
\* an image message; an image that does not load leaves no item and the other
\* items keep their order; when the store query raises the result is empty.
C26_HistoryRead ==
    last.handler = "retrieve_session_history" =>
        /\ ~last.find_ok => last.items = << >>
        /\ last.find_ok =>
              /\ Len(last.items) = Cardinality(Returnable(history_collection, last.fs))
              /\ \A i \in Returnable(history_collection, last.fs) :
                    LET msg == history_collection[i]
                        item == last.items[OlderThan(history_collection, last.fs, i) + 1]
                    IN  /\ item.type = msg.type
                        /\ item.content = msg.content

\* Witness of C26: the session's messages were stored newest first, the image
\* between the two texts does not load, and the read returns the two texts,
\* the older first.
C26_Witness ==
    /\ last.handler = "retrieve_session_history" /\ last.find_ok
    /\ Len(history_collection) = 3
    /\ \A i \in 1..3 : history_collection[i].session_id = SESSION_ID
                         /\ history_collection[i].timestamp = 4 - i
    /\ history_collection[2].type = "image"
    /\ last.fs[KeyOf(history_collection[2].content)] = "corrupt"
    /\ last.items = <<Text(TextAt(1)), Text(TextAt(3))>>

---------------------------------------------------------------------------
(* SpecStartup: initialize_connections called once, with every behaviour of the
   store, the credential service, the environment and the genai library *)

InitStartup ==
    /\ USE_MEMORY = FALSE /\ USE_REACT = FALSE /\ SESSION_ID = "s1"
    /\ SERVERLESS_URL \in BOOLEAN
    /\ collection \in {{}, {"k1"}}
    /\ history_collection = << >>
    /\ pc = "start" /\ default_images = << >>
    /\ last = NoLast
    /\ react = NoReact
    /\ search = NoSearch
    /\ runs = << >>
    /\ startup = NotStarted

\* initialize_connections(), with what it met and the key it settled on (none
\* is read when the function returns before line 124).
InitializeConnections ==
    /\ pc = "start"
    /\ \E in \in StartupInputs :
        LET outcome == initialize_connections(SERVERLESS_URL, collection, in)
        IN  /\ startup' = [done |-> TRUE, outcome |-> outcome]
            /\ last' = [handler |-> "initialize_connections", in |-> in,
                        api_key |-> IF in.ping = "ok" /\ in.count = "ok" /\ collection # {}
                                    THEN ApiKeySource(SERVERLESS_URL, in) ELSE "unread"]
            /\ pc' = IF outcome = "ok" THEN "prompt" ELSE "exited"
    /\ UNCHANGED <<USE_MEMORY, USE_REACT, SESSION_ID, SERVERLESS_URL, collection,
                   history_collection, default_images, react, search, runs>>

NextStartup == InitializeConnections

SpecStartup == InitStartup /\ [][NextStartup]_vars

\* The credential service gave a key: SERVERLESS_URL is set and the request
\* answered 200 with an api_key.
ServiceGaveKey == SERVERLESS_URL /\ last.in.service = "key"

\* C30: the API key is the credential service's when SERVERLESS_URL is set and
\* the service answers 200 with an api_key; in every other case (no service,
\* request raising, another status, no api_key in the body) it is
\* GOOGLE_API_KEY; with GOOGLE_API_KEY set, no behaviour of the credential
\* service makes initialization fail.
C30_ApiKeySource ==
    (last.handler = "initialize_connections" /\ last.api_key # "unread") =>
        /\ ServiceGaveKey => last.api_key = "service"
        /\ (~ServiceGaveKey /\ last.in.env) => last.api_key = "env"
        /\ (~ServiceGaveKey /\ ~last.in.env) =>
              last.api_key = "none" /\ startup.outcome = "no_api_key"
        /\ last.in.env => startup.outcome # "no_api_key"
        /\ (last.in.env /\ last.in.client = "ok") =>
              startup.outcome = "ok" /\ pc = "prompt"
        /\ startup.outcome = "ok" => last.api_key \in {"service", "env"}

\* Witness of C30: the request to the credential service raised, GOOGLE_API_KEY
\* was used and initialization succeeded.
C30_Witness ==
    /\ last.handler = "initialize_connections" /\ SERVERLESS_URL
    /\ last.in.service = "raise" /\ last.in.env
    /\ last.api_key = "env" /\ startup.outcome = "ok" /\ pc = "prompt"
====
